---------------------------- MODULE Spec2Model ----------------------------
(***************************************************************************)
(* The replay analysis integrator (integrador.py): the                     *)
(* ReplayAnalyzerIntegrator pipeline parse -> export -> analyze ->         *)
(* visualize over a shared result store, get_result_summary, and the       *)
(* command line of integrador.py as driven by the analisar_replay wrapper. *)
(*                                                                         *)
(* Strings are sequences of pieces (so that concatenation, basename and    *)
(* replace can be computed); Python values and JSON documents are tagged   *)
(* records [t |-> tag, v |-> payload].                                     *)
(***************************************************************************)
EXTENDS Integers, Sequences, FiniteSets, TLC

\* ------------------------------------------------------------ bounds
\* The wall clock runs over the seconds 0..MaxClock.
MaxClock == 1
\* process_replay / create_and_process_demo_replay calls of the one
\* integrator of Spec.
MaxCalls == 3
\* Calls of each of the two integrators of SpecConc.
ConcCalls == 1

Insts == {1, 2}

\* ------------------------------------------------------------ Python values
PyNone == [t |-> "none", v |-> <<>>]
PyInt(n) == [t |-> "int", v |-> n]
PyStr(s) == [t |-> "str", v |-> s]
PyList(s) == [t |-> "list", v |-> s]
PyTuple(s) == [t |-> "tuple", v |-> s]
PyDict(r) == [t |-> "dict", v |-> r]
EmptyDict == [t |-> "dict", v |-> <<>>]

\* d.get(k, default) and k in d, on a dict
HasKey(d, k) == d.t = "dict" /\ k \in DOMAIN d.v
PyGet(d, k, default) == IF HasKey(d, k) THEN d.v[k] ELSE default

\* ------------------------------------------------------------ JSON
\* json.dump: lists and tuples both become arrays, dicts become objects.
RECURSIVE JsonDump(_)
JsonDump(p) ==
    CASE p.t = "none" -> [t |-> "null", v |-> <<>>]
      [] p.t = "int" -> [t |-> "number", v |-> p.v]
      [] p.t = "str" -> [t |-> "string", v |-> p.v]
      [] p.t \in {"list", "tuple"} ->
            [t |-> "array", v |-> [k \in DOMAIN p.v |-> JsonDump(p.v[k])]]
      [] p.t = "dict" ->
            [t |-> "object", v |-> [k \in DOMAIN p.v |-> JsonDump(p.v[k])]]

\* json.load: arrays become lists, objects become dicts.
RECURSIVE JsonLoad(_)
JsonLoad(j) ==
    CASE j.t = "null" -> PyNone
      [] j.t = "number" -> PyInt(j.v)
      [] j.t = "string" -> PyStr(j.v)
      [] j.t = "array" -> PyList([k \in DOMAIN j.v |-> JsonLoad(j.v[k])])
      [] j.t = "object" -> PyDict([k \in DOMAIN j.v |-> JsonLoad(j.v[k])])

\* ------------------------------------------------------------ paths
\* os.path.join(dir, name)
join(dir, name) == dir \o <<"/">> \o name

\* os.path.basename(path): what follows the last separator
basename(path) ==
    LET seps == {k \in DOMAIN path : path[k] = "/"}
        last == IF seps = {} THEN 0 ELSE CHOOSE k \in seps : \A m \in seps : m <= k
    IN SubSeq(path, last + 1, Len(path))

\* s.replace(piece, '')
RemovePiece(s, piece) == SelectSeq(s, LAMBDA x : x # piece)

\* datetime.now().strftime('%Y%m%d%H%M%S'): one string per second
strftime(t) == ToString(t)


\* ------------------------------------------------------------ replay files
\* What a replay file holds: "none" (no such file), "corrupt" (a capture the
\* decoder rejects), or a decodable capture "A", "B" or "S" (the sample).
Decodable == {"A", "B", "S"}

PathA == <<"a", "/", "x", ".replay">>
PathB == <<"b", "/", "x", ".replay">>
PathBad == <<"c", "/", "bad", ".replay">>
PathGone == <<"c", "/", "gone", ".replay">>
UserPaths == {PathA, PathB, PathBad, PathGone}

DefaultDataDir == <<"base", "/", "data">>
CustomDataDir == <<"custom">>
DataDirs == {DefaultDataDir, CustomDataDir}

SampleName == <<"sample", ".replay">>
SamplePath(uploadsDir) == join(uploadsDir, SampleName)

Player(id, name, team) ==
    PyDict([id |-> PyInt(id), name |-> PyStr(name), team |-> PyInt(team)])
Event(type, time, player) ==
    PyDict([type |-> PyStr(type), time |-> PyInt(time), player |-> PyInt(player)])
Frames(cols, rows) == [cols |-> cols, rows |-> rows]

PlayerCols == <<"time", "player_id", "x">>
BallCols == <<"time", "x">>

EmptyReplay ==
    [metadata |-> EmptyDict, players |-> PyList(<<>>), events |-> PyList(<<>>),
     player_frames |-> Frames(PlayerCols, <<>>), ball_frames |-> Frames(BallCols, <<>>),
     dropped |-> 0]

\* The decoder's output for each capture: metadata, roster, events, per-entity
\* frames and the count of records dropped as non-fatal anomalies.
DecodedReplay(c) ==
    CASE c = "A" ->
            [metadata |-> PyDict([map_name |-> PyStr(<<"DFH">>), duration |-> PyInt(60)]),
             players |-> PyList(<<Player(1, <<"p1">>, 0)>>),
             events |-> PyList(<<Event(<<"goal">>, 30, 1)>>),
             player_frames |-> Frames(PlayerCols, << <<0, 1, 10>>, <<1, 1, 20>> >>),
             ball_frames |-> Frames(BallCols, << <<0, 0>> >>),
             dropped |-> 0]
      [] c = "B" ->
            [metadata |-> PyDict([map_name |-> PyStr(<<"Mannfield">>), duration |-> PyInt(90)]),
             players |-> PyList(<<Player(1, <<"p1">>, 0), Player(2, <<"p2">>, 1)>>),
             events |-> PyList(<<>>),
             player_frames |-> Frames(PlayerCols, << <<0, 1, 5>>, <<0, 2, 7>>, <<1, 1, 6>> >>),
             ball_frames |-> Frames(BallCols, << <<0, 0>>, <<1, 3>> >>),
             dropped |-> 1]
      [] c = "S" ->
            [metadata |-> PyDict([map_name |-> PyStr(<<"Sample">>), duration |-> PyInt(60)]),
             players |-> PyList(<<Player(1, <<"p1">>, 0), Player(2, <<"p2">>, 1)>>),
             events |-> PyList(<<Event(<<"goal">>, 30, 1)>>),
             player_frames |-> Frames(PlayerCols, << <<0, 1, 1>>, <<0, 2, 2>> >>),
             ball_frames |-> Frames(BallCols, << <<0, 0>>, <<1, 1>>, <<2, 2>> >>),
             dropped |-> 0]
      [] OTHER -> EmptyReplay

\* ------------------------------------------------------------ parser
\* RocketLeagueParser(replay_path)
RocketLeagueParser(path) == [path |-> path, parsed |-> FALSE, data |-> EmptyReplay]

\* parser.parse(): the parser after the call; its field parsed is what the
\* call returns.
parse(p, files) ==
    IF files[p.path] \in Decodable
    THEN [p EXCEPT !.parsed = TRUE, !.data = DecodedReplay(files[p.path])]
    ELSE [p EXCEPT !.parsed = FALSE]

get_metadata(p) == p.data.metadata
get_players(p) == p.data.players
get_events(p) == p.data.events
get_player_positions_dataframe(p) == p.data.player_frames
get_ball_positions_dataframe(p) == p.data.ball_frames

\* parser.export_to_json(path): the document written
export_to_json(p) ==
    JsonDump(PyDict([metadata |-> get_metadata(p), players |-> get_players(p),
                     events |-> get_events(p)]))

\* create_sample_replay(uploads_dir): writes the sample capture, returns its path
create_sample_replay(files, uploadsDir) ==
    [files EXCEPT ![SamplePath(uploadsDir)] = "S"]

\* DataFrame.to_csv(path, index=False): a header line and one line per row
to_csv(df) ==
    <<df.cols>> \o [k \in DOMAIN df.rows |->
                       [c \in DOMAIN df.rows[k] |-> ToString(df.rows[k][c])]]

\* ------------------------------------------------------------ analyzer
\* RocketLeagueAnalyzer()
RocketLeagueAnalyzer ==
    [data |-> PyNone, player_df |-> Frames(PlayerCols, <<>>),
     ball_df |-> Frames(BallCols, <<>>), analysis_results |-> EmptyDict]

load_data(an, replayData) == [an EXCEPT !.data = replayData]
load_dataframes(an, playerDf, ballDf) ==
    [an EXCEPT !.player_df = playerDf, !.ball_df = ballDf]

Min(a, b) == IF a <= b THEN a ELSE b
Scaled(n, unit) == Min(100, unit * n)

\* analyzer.analyze(): category scores on the 0..100 scale, each a fixed
\* formula of the loaded data
analyze(an) ==
    LET events == PyGet(an.data, "events", PyList(<<>>))
    IN [an EXCEPT !.analysis_results =
          PyDict([positioning |-> PyDict([score |-> PyInt(Scaled(Len(an.player_df.rows), 25))]),
                  ball_control |-> PyDict([score |-> PyInt(Scaled(Len(an.ball_df.rows), 25))]),
                  contribution |-> PyDict([score |-> PyInt(Scaled(Len(events.v), 50))])])]

Categories == <<"ball_control", "contribution", "positioning">>
CategoryScore(an, c) == PyGet(PyGet(an.analysis_results, c, EmptyDict), "score", PyInt(0)).v
LowCategories(an) == SelectSeq(Categories, LAMBDA c : CategoryScore(an, c) < 50)

\* analyzer.get_overall_score()
get_overall_score(an) ==
    PyDict([overall_score |->
                PyInt((CategoryScore(an, "ball_control") + CategoryScore(an, "contribution")
                       + CategoryScore(an, "positioning")) \div 3),
            category_scores |->
                PyDict([c \in {Categories[k] : k \in DOMAIN Categories} |->
                           PyInt(CategoryScore(an, c))])])

\* analyzer.get_key_findings(): one finding per low category, in category order
get_key_findings(an) ==
    LET low == LowCategories(an)
    IN PyList([k \in DOMAIN low |-> PyStr(<<"low ", low[k]>>)])

\* analyzer.get_recommendations(): advice per low category
get_recommendations(an) ==
    LET low == LowCategories(an)
    IN PyDict([c \in {low[k] : k \in DOMAIN low} |-> PyList(<<PyStr(<<"train ", c>>)>>)])

\* ------------------------------------------------------------ visualizer
Charts ==
    <<"heatmap", "ball_trajectory", "boost_usage", "speed", "distance_to_ball",
      "team_spread", "analysis_radar", "event_timeline">>
ChartSet == {Charts[k] : k \in DOMAIN Charts}

\* RocketLeagueVisualizer(output_dir) and visualizer.set_output_dir(dir)
RocketLeagueVisualizer(dir) == [output_dir |-> dir]
set_output_dir(v, dir) == [v EXCEPT !.output_dir = dir]

\* save_as='<chart>.png'
SaveAs(chart) == <<chart, ".png">>

\* visualizer.create_<chart>(...): the image written, a rendering of its inputs
Render(chart, inputs) == [chart |-> chart, of |-> inputs]

\* ------------------------------------------------------------ result store
ReplayDataJson == <<"replay_data", ".json">>
PlayerCsv == <<"player_positions", ".csv">>
BallCsv == <<"ball_positions", ".csv">>
AnalysisJson == <<"analysis_results", ".json">>
FileNames ==
    {ReplayDataJson, PlayerCsv, BallCsv, AnalysisJson} \cup {SaveAs(c) : c \in ChartSet}

\* A directory maps each file name to <<>> (no such file) or <<content>>.
EmptyDir == [f \in FileNames |-> <<>>]

\* os.makedirs(dir, exist_ok=True)
makedirs(st, dir) ==
    IF dir \in DOMAIN st THEN st
    ELSE [d \in DOMAIN st \cup {dir} |-> IF d = dir THEN EmptyDir ELSE st[d]]

\* open(dir/name, 'w') and the write of content
WriteFile(st, dir, name, content) == [st EXCEPT ![dir][name] = <<content>>]

\* os.path.exists
DirExists(st, dir) == dir \in DOMAIN st
FileExists(st, dir, name) == DirExists(st, dir) /\ st[dir][name] # <<>>

\* ------------------------------------------------------------ integrator
uploads_dir(base) == join(base, <<"uploads">>)
results_dir(base) == join(base, <<"results">>)
visualizations_dir(base) == join(base, <<"visualizations">>)

ReplayPaths == UserPaths \cup {SamplePath(uploads_dir(d)) : d \in DataDirs}

\* os.path.exists(replay_path)
\* (faulty variant: the check is skipped)
PathExistsAlways(files, path) == TRUE
PathExists(files, path) == files[path] # "none"

\* The result_id argument: None, or a string
NoId == [some |-> FALSE, id |-> <<>>]
GivenId(s) == [some |-> TRUE, id |-> s]
DemoId == <<"demo_replay">>

\* not result_id
NeedsGeneratedId(arg) == ~arg.some \/ arg.id = <<>>

\* basename(replay_path).replace('.replay', '') + '_' + now.strftime(...)
GenerateResultId(path, t) ==
    RemovePiece(basename(path), ".replay") \o <<"_">> \o <<strftime(t)>>

ResultIdOf(arg, path, t) ==
    IF NeedsGeneratedId(arg) THEN GenerateResultId(path, t) ELSE arg.id

\* os.path.join(self.results_dir, result_id)
ResultDir(base, rid) == join(results_dir(base), rid)

\* if not self.parser.parse()
\* (faulty variant: the result of parse() is ignored)
ParseNeverFails(p) == FALSE
ParseFailed(p) == ~p.parsed

\* The stages of process_replay after the result directory is set up, in
\* program order.
\* (faulty variant: analysis_results.json is written before analyze())
PipelineAnalysisExportFirst ==
    <<"parse", "export_json", "csv_player", "csv_ball", "write_analysis", "analyze">>
       \o Charts \o <<"compile">>
Pipeline ==
    <<"parse", "export_json", "csv_player", "csv_ball", "analyze", "write_analysis">>
       \o Charts \o <<"compile">>

NextStage(stage) ==
    LET k == CHOOSE n \in DOMAIN Pipeline : Pipeline[n] = stage
    IN IF k = Len(Pipeline) THEN "returned" ELSE Pipeline[k + 1]

\* replay_data = {'metadata': ..., 'players': ..., 'events': ...}
replay_data(p) ==
    PyDict([metadata |-> get_metadata(p), players |-> get_players(p), events |-> get_events(p)])

\* analyzer.load_data(replay_data); analyzer.load_dataframes(player_df, ball_df);
\* analyzer.analyze()
\* (faulty variant: the dataframes are loaded after analyze(), which then runs
\* on those of the previous call)
RunAnalyzerLoadsFramesLate(an, replayData, playerDf, ballDf) ==
    load_dataframes(analyze(load_data(an, replayData)), playerDf, ballDf)
RunAnalyzer(an, replayData, playerDf, ballDf) ==
    analyze(load_dataframes(load_data(an, replayData), playerDf, ballDf))

\* The dict dumped to analysis_results.json
\* (faulty variant: the score is written under another key)
AnalysisDocMisnamed(analysis, overall, findings, recommendations) ==
    PyDict([analysis |-> analysis, score |-> overall, findings |-> findings,
            recommendations |-> recommendations])
AnalysisDoc(analysis, overall, findings, recommendations) ==
    PyDict([analysis |-> analysis, overall_score |-> overall, findings |-> findings,
            recommendations |-> recommendations])

\* The 'visualizations' entry: one path per chart under the result directory
VisualizationPaths(resultDir) ==
    PyDict([c \in ChartSet |-> PyStr(join(resultDir, SaveAs(c)))])

\* What each chart is drawn from
ChartInputs(chart, p, playerDf, ballDf, analysis) ==
    CASE chart = "heatmap" -> <<playerDf>>
      [] chart = "ball_trajectory" -> <<ballDf>>
      [] chart \in {"boost_usage", "speed", "team_spread"} -> <<playerDf, get_players(p)>>
      [] chart = "distance_to_ball" -> <<playerDf, ballDf, get_players(p)>>
      [] chart = "analysis_radar" -> <<analysis>>
      [] chart = "event_timeline" -> <<get_events(p)>>

\* results = {...}
CompileResults(rid, path, resultDir, p, analysis, overall, findings, recommendations) ==
    PyDict([id |-> PyStr(rid),
            replay_path |-> PyStr(path),
            result_dir |-> PyStr(resultDir),
            metadata |-> get_metadata(p),
            players |-> get_players(p),
            events |-> get_events(p),
            analysis |-> analysis,
            overall_score |-> overall,
            findings |-> findings,
            recommendations |-> recommendations,
            visualizations |-> VisualizationPaths(resultDir)])

\* get_result_summary(result_id) on the store under data_dir
\* (faulty variant: a missing file reads as an empty document)
get_result_summary_no_analysis_check(st, base, rid) ==
    LET dir == ResultDir(base, rid)
    IN IF ~DirExists(st, dir) THEN PyNone
       ELSE LET analysisData == IF FileExists(st, dir, AnalysisJson)
                                THEN JsonLoad(st[dir][AnalysisJson][1]) ELSE EmptyDict
                replayData == IF FileExists(st, dir, ReplayDataJson)
                              THEN JsonLoad(st[dir][ReplayDataJson][1]) ELSE EmptyDict
            IN PyDict([id |-> PyStr(rid),
                       metadata |-> PyGet(replayData, "metadata", EmptyDict),
                       players |-> PyGet(replayData, "players", PyList(<<>>)),
                       events |-> PyGet(replayData, "events", PyList(<<>>)),
                       overall_score |-> PyGet(analysisData, "overall_score", EmptyDict),
                       findings |-> PyGet(analysisData, "findings", PyList(<<>>)),
                       recommendations |-> PyGet(analysisData, "recommendations", EmptyDict),
                       visualizations |-> VisualizationPaths(dir)])
get_result_summary(st, base, rid) ==
    LET dir == ResultDir(base, rid)
    IN IF ~DirExists(st, dir) THEN PyNone
       ELSE IF ~FileExists(st, dir, AnalysisJson) THEN PyNone
       ELSE IF ~FileExists(st, dir, ReplayDataJson) THEN PyNone
       ELSE LET analysisData == JsonLoad(st[dir][AnalysisJson][1])
                replayData == JsonLoad(st[dir][ReplayDataJson][1])
            IN PyDict([id |-> PyStr(rid),
                       metadata |-> PyGet(replayData, "metadata", EmptyDict),
                       players |-> PyGet(replayData, "players", PyList(<<>>)),
                       events |-> PyGet(replayData, "events", PyList(<<>>)),
                       overall_score |-> PyGet(analysisData, "overall_score", EmptyDict),
                       findings |-> PyGet(analysisData, "findings", PyList(<<>>)),
                       recommendations |-> PyGet(analysisData, "recommendations", EmptyDict),
                       visualizations |-> VisualizationPaths(dir)])

\* ------------------------------------------------------------ state
VARIABLES
    live,         \* the integrators constructed
    data_dir,     \* self.data_dir of each integrator
    now,          \* the wall clock, in seconds
    replayFiles,  \* replay path -> what the file holds
    store,        \* result directory -> its files
    parser,       \* self.parser: <<>> (None) or <<parser>>
    analyzer,     \* self.analyzer
    visualizer,   \* self.visualizer
    pc,           \* where each integrator's caller or call stands
    loc,          \* the locals of the running process_replay call
    ret,          \* what the process_replay call returned
    log,          \* the collaborator calls and file writes of the running call
    sumArg,       \* the result_id of the get_result_summary call
    sumRet,       \* what the get_result_summary call returned
    budget,       \* calls each integrator may still start
    firstBundle,  \* per integrator and replay path: the first analysis it returned
    prevOk,       \* per integrator: the replay of its last successful call
    lastRun,      \* per result directory: how the latest call naming it ended
    lastRet,      \* per result directory: the result of the successful call
                  \* that wrote it, while nothing has written to it since
    cli           \* the command line: wrapper and integrador.py main

ivars ==
    <<live, data_dir, now, replayFiles, store, parser, analyzer, visualizer, pc, loc, ret,
      log, sumArg, sumRet, budget, firstBundle, prevOk, lastRun, lastRet>>
vars ==
    <<live, data_dir, now, replayFiles, store, parser, analyzer, visualizer, pc, loc, ret,
      log, sumArg, sumRet, budget, firstBundle, prevOk, lastRun, lastRet, cli>>

NoFrames == Frames(<<>>, <<>>)
NoLocals ==
    [replay_path |-> <<>>, arg_id |-> NoId, result_id |-> <<>>, result_dir |-> <<>>,
     player_df |-> NoFrames, ball_df |-> NoFrames,
     analysis_results |-> PyNone, overall_score |-> PyNone, findings |-> PyNone,
     recommendations |-> PyNone, repeat |-> FALSE, prev |-> <<>>]

CliStart ==
    [pc |-> "start", argv |-> <<>>, outcome |-> [kind |-> "none"], via |-> "none",
     arquivo |-> <<>>]

\* ReplayAnalyzerIntegrator.__init__ of every integrator of `who`, with the
\* data directories dd, and the replay files the user has
InitWith(who, dd, calls) ==
    /\ live = who
    /\ data_dir = dd
    /\ now = 0
    /\ replayFiles = [p \in ReplayPaths |->
                        CASE p = PathA -> "A"
                          [] p = PathB -> "B"
                          [] p = PathBad -> "corrupt"
                          [] OTHER -> "none"]
    /\ store = <<>>
    /\ parser = [i \in Insts |-> <<>>]
    /\ analyzer = [i \in Insts |-> RocketLeagueAnalyzer]
    /\ visualizer = [i \in Insts |-> RocketLeagueVisualizer(visualizations_dir(dd[i]))]
    /\ pc = [i \in Insts |-> "idle"]
    /\ loc = [i \in Insts |-> NoLocals]
    /\ ret = [i \in Insts |-> PyNone]
    /\ log = [i \in Insts |-> <<>>]
    /\ sumArg = [i \in Insts |-> <<>>]
    /\ sumRet = [i \in Insts |-> PyNone]
    /\ budget = [i \in Insts |-> IF i \in who THEN calls ELSE 0]
    /\ firstBundle = [i \in Insts |-> [p \in ReplayPaths |-> <<>>]]
    /\ prevOk = [i \in Insts |-> <<>>]
    /\ lastRun = <<>>
    /\ lastRet = <<>>
    /\ cli = CliStart

\* One integrator on the default data directory
Init == InitWith({1}, [i \in Insts |-> DefaultDataDir], MaxCalls)

\* Two integrators, the second on the default or on its own data directory
InitConc ==
    \E d \in DataDirs :
        InitWith(Insts, [i \in Insts |-> IF i = 1 THEN DefaultDataDir ELSE d], ConcCalls)

\* ghost maps keyed by result directory
Put(m, k, x) == [d \in DOMAIN m \cup {k} |-> IF d = k THEN x ELSE m[d]]
Forget(m, k) == IF k \in DOMAIN m THEN [m EXCEPT ![k] = <<>>] ELSE m

\* ------------------------------------------------------------ process_replay
\* A caller invokes process_replay(path, arg)
Call(i, path, arg) ==
    /\ i \in live /\ pc[i] = "idle" /\ budget[i] > 0
    /\ pc' = [pc EXCEPT ![i] = "call"]
    /\ loc' = [loc EXCEPT ![i] = [NoLocals EXCEPT !.replay_path = path, !.arg_id = arg]]
    /\ budget' = [budget EXCEPT ![i] = @ - 1]
    /\ UNCHANGED <<live, data_dir, now, replayFiles, store, parser, analyzer, visualizer, ret,
                   log, sumArg, sumRet, firstBundle, prevOk, lastRun, lastRet, cli>>

\* create_and_process_demo_replay: the sample is created, then process_replay
\* is invoked on it with the id 'demo_replay'
create_and_process_demo_replay(i) ==
    /\ i \in live /\ pc[i] = "idle" /\ budget[i] > 0
    /\ replayFiles' = create_sample_replay(replayFiles, uploads_dir(data_dir[i]))
    /\ pc' = [pc EXCEPT ![i] = "call"]
    /\ loc' = [loc EXCEPT ![i] =
                 [NoLocals EXCEPT !.replay_path = SamplePath(uploads_dir(data_dir[i])),
                                  !.arg_id = GivenId(DemoId)]]
    /\ budget' = [budget EXCEPT ![i] = @ - 1]
    /\ UNCHANGED <<live, data_dir, now, store, parser, analyzer, visualizer, ret,
                   log, sumArg, sumRet, firstBundle, prevOk, lastRun, lastRet, cli>>

\* The existence check; then the result id, the result directory and the
\* visualizer's output directory
Begin(i) ==
    /\ pc[i] = "call"
    /\ LET path == loc[i].replay_path
           arg == loc[i].arg_id
       IN IF ~PathExists(replayFiles, path)
          THEN /\ pc' = [pc EXCEPT ![i] = "returned"]
               /\ ret' = [ret EXCEPT ![i] = PyNone]
               /\ lastRun' = IF NeedsGeneratedId(arg) THEN lastRun
                             ELSE Put(lastRun, ResultDir(data_dir[i], arg.id), "failed")
               /\ UNCHANGED <<store, visualizer, loc>>
          ELSE LET rid == ResultIdOf(arg, path, now)
                   dir == ResultDir(data_dir[i], rid)
               IN /\ store' = makedirs(store, dir)
                  /\ visualizer' = [visualizer EXCEPT ![i] = set_output_dir(@, dir)]
                  /\ loc' = [loc EXCEPT ![i].result_id = rid, ![i].result_dir = dir]
                  /\ pc' = [pc EXCEPT ![i] = Pipeline[1]]
                  /\ UNCHANGED <<ret, lastRun>>
    /\ UNCHANGED <<live, data_dir, now, replayFiles, parser, analyzer, log, sumArg, sumRet,
                   budget, firstBundle, prevOk, lastRet, cli>>

\* self.parser = RocketLeagueParser(replay_path); if not self.parser.parse(): return None
Parse(i) ==
    /\ pc[i] = "parse"
    /\ LET p == parse(RocketLeagueParser(loc[i].replay_path), replayFiles)
       IN /\ parser' = [parser EXCEPT ![i] = <<p>>]
          /\ log' = [log EXCEPT ![i] = Append(@, "parse")]
          /\ IF ParseFailed(p)
             THEN /\ pc' = [pc EXCEPT ![i] = "returned"]
                  /\ ret' = [ret EXCEPT ![i] = PyNone]
                  /\ lastRun' = Put(lastRun, loc[i].result_dir, "failed")
             ELSE /\ pc' = [pc EXCEPT ![i] = NextStage("parse")]
                  /\ UNCHANGED <<ret, lastRun>>
    /\ UNCHANGED <<live, data_dir, now, replayFiles, store, analyzer, visualizer, loc, sumArg,
                   sumRet, budget, firstBundle, prevOk, lastRet, cli>>

\* self.parser.export_to_json(result_dir/replay_data.json)
ExportJson(i) ==
    /\ pc[i] = "export_json"
    /\ store' = WriteFile(store, loc[i].result_dir, ReplayDataJson, export_to_json(parser[i][1]))
    /\ log' = [log EXCEPT ![i] = Append(@, "export_json")]
    /\ lastRet' = Forget(lastRet, loc[i].result_dir)
    /\ pc' = [pc EXCEPT ![i] = NextStage("export_json")]
    /\ UNCHANGED <<live, data_dir, now, replayFiles, parser, analyzer, visualizer, loc, ret,
                   sumArg, sumRet, budget, firstBundle, prevOk, lastRun, cli>>

\* player_df, ball_df = ...; player_df.to_csv(result_dir/player_positions.csv)
CsvPlayer(i) ==
    /\ pc[i] = "csv_player"
    /\ LET playerDf == get_player_positions_dataframe(parser[i][1])
           ballDf == get_ball_positions_dataframe(parser[i][1])
       IN /\ loc' = [loc EXCEPT ![i].player_df = playerDf, ![i].ball_df = ballDf]
          /\ store' = WriteFile(store, loc[i].result_dir, PlayerCsv, to_csv(playerDf))
    /\ log' = [log EXCEPT ![i] = Append(@, "csv_player")]
    /\ lastRet' = Forget(lastRet, loc[i].result_dir)
    /\ pc' = [pc EXCEPT ![i] = NextStage("csv_player")]
    /\ UNCHANGED <<live, data_dir, now, replayFiles, parser, analyzer, visualizer, ret,
                   sumArg, sumRet, budget, firstBundle, prevOk, lastRun, cli>>

\* ball_df.to_csv(result_dir/ball_positions.csv)
CsvBall(i) ==
    /\ pc[i] = "csv_ball"
    /\ store' = WriteFile(store, loc[i].result_dir, BallCsv, to_csv(loc[i].ball_df))
    /\ log' = [log EXCEPT ![i] = Append(@, "csv_ball")]
    /\ lastRet' = Forget(lastRet, loc[i].result_dir)
    /\ pc' = [pc EXCEPT ![i] = NextStage("csv_ball")]
    /\ UNCHANGED <<live, data_dir, now, replayFiles, parser, analyzer, visualizer, loc, ret,
                   sumArg, sumRet, budget, firstBundle, prevOk, lastRun, cli>>

\* analyzer.load_data, load_dataframes, analyze; then the results are read
AnalyzeStage(i) ==
    /\ pc[i] = "analyze"
    /\ LET an == RunAnalyzer(analyzer[i], replay_data(parser[i][1]),
                             loc[i].player_df, loc[i].ball_df)
       IN /\ analyzer' = [analyzer EXCEPT ![i] = an]
          /\ loc' = [loc EXCEPT ![i].analysis_results = an.analysis_results,
                                ![i].overall_score = get_overall_score(an),
                                ![i].findings = get_key_findings(an),
                                ![i].recommendations = get_recommendations(an)]
    /\ log' = [log EXCEPT ![i] = @ \o <<"load_data", "load_dataframes", "analyze">>]
    /\ pc' = [pc EXCEPT ![i] = NextStage("analyze")]
    /\ UNCHANGED <<live, data_dir, now, replayFiles, store, parser, visualizer, ret, sumArg,
                   sumRet, budget, firstBundle, prevOk, lastRun, lastRet, cli>>

\* json.dump({...}, result_dir/analysis_results.json)
WriteAnalysis(i) ==
    /\ pc[i] = "write_analysis"
    /\ store' = WriteFile(store, loc[i].result_dir, AnalysisJson,
                          JsonDump(AnalysisDoc(loc[i].analysis_results, loc[i].overall_score,
                                               loc[i].findings, loc[i].recommendations)))
    /\ log' = [log EXCEPT ![i] = Append(@, "write_analysis")]
    /\ lastRet' = Forget(lastRet, loc[i].result_dir)
    /\ pc' = [pc EXCEPT ![i] = NextStage("write_analysis")]
    /\ UNCHANGED <<live, data_dir, now, replayFiles, parser, analyzer, visualizer, loc, ret,
                   sumArg, sumRet, budget, firstBundle, prevOk, lastRun, cli>>

\* self.visualizer.create_<chart>(..., save_as='<chart>.png'), one chart per step;
\* the visualizer writes into its output directory
Visualize(i) ==
    /\ pc[i] \in ChartSet
    /\ store' = WriteFile(store, visualizer[i].output_dir, SaveAs(pc[i]),
                          Render(pc[i], ChartInputs(pc[i], parser[i][1], loc[i].player_df,
                                                    loc[i].ball_df, loc[i].analysis_results)))
    /\ log' = [log EXCEPT ![i] = Append(@, pc[i])]
    /\ lastRet' = Forget(lastRet, visualizer[i].output_dir)
    /\ pc' = [pc EXCEPT ![i] = NextStage(pc[i])]
    /\ UNCHANGED <<live, data_dir, now, replayFiles, parser, analyzer, visualizer, loc, ret,
                   sumArg, sumRet, budget, firstBundle, prevOk, lastRun, cli>>

Bundle(r) ==
    [analysis |-> r.v.analysis, overall_score |-> r.v.overall_score,
     findings |-> r.v.findings, recommendations |-> r.v.recommendations]

\* results = {...}; return results
Compile(i) ==
    /\ pc[i] = "compile"
    /\ LET path == loc[i].replay_path
           r == CompileResults(loc[i].result_id, path, loc[i].result_dir, parser[i][1],
                               loc[i].analysis_results, loc[i].overall_score,
                               loc[i].findings, loc[i].recommendations)
       IN /\ ret' = [ret EXCEPT ![i] = r]
          /\ lastRun' = Put(lastRun, loc[i].result_dir, "ok")
          /\ lastRet' = Put(lastRet, loc[i].result_dir, <<r>>)
          /\ loc' = [loc EXCEPT ![i].repeat = firstBundle[i][path] # <<>>,
                                ![i].prev = prevOk[i]]
          /\ firstBundle' = IF firstBundle[i][path] # <<>> THEN firstBundle
                            ELSE [firstBundle EXCEPT ![i][path] = <<Bundle(r)>>]
          /\ prevOk' = [prevOk EXCEPT ![i] = path]
    /\ pc' = [pc EXCEPT ![i] = NextStage("compile")]
    /\ UNCHANGED <<live, data_dir, now, replayFiles, store, parser, analyzer, visualizer, log,
                   sumArg, sumRet, budget, cli>>

\* The caller has the value process_replay returned
Return(i) ==
    /\ pc[i] = "returned"
    /\ pc' = [pc EXCEPT ![i] = "idle"]
    /\ loc' = [loc EXCEPT ![i] = NoLocals]
    /\ ret' = [ret EXCEPT ![i] = PyNone]
    /\ log' = [log EXCEPT ![i] = <<>>]
    /\ UNCHANGED <<live, data_dir, now, replayFiles, store, parser, analyzer, visualizer,
                   sumArg, sumRet, budget, firstBundle, prevOk, lastRun, lastRet, cli>>

\* ------------------------------------------------------------ get_result_summary
GivenIds == {<<"r1">>, DemoId}
QueryIds == GivenIds \cup {GenerateResultId(p, t) : p \in UserPaths, t \in 0..MaxClock}

Summary(i, rid) ==
    /\ i \in live /\ pc[i] = "idle"
    /\ sumArg' = [sumArg EXCEPT ![i] = rid]
    /\ sumRet' = [sumRet EXCEPT ![i] = get_result_summary(store, data_dir[i], rid)]
    /\ pc' = [pc EXCEPT ![i] = "summarized"]
    /\ UNCHANGED <<live, data_dir, now, replayFiles, store, parser, analyzer, visualizer, loc,
                   ret, log, budget, firstBundle, prevOk, lastRun, lastRet, cli>>

SummaryReturn(i) ==
    /\ pc[i] = "summarized"
    /\ pc' = [pc EXCEPT ![i] = "idle"]
    /\ sumArg' = [sumArg EXCEPT ![i] = <<>>]
    /\ sumRet' = [sumRet EXCEPT ![i] = PyNone]
    /\ UNCHANGED <<live, data_dir, now, replayFiles, store, parser, analyzer, visualizer, loc,
                   ret, log, budget, firstBundle, prevOk, lastRun, lastRet, cli>>

\* A second passes
Tick ==
    /\ now < MaxClock
    /\ now' = now + 1
    /\ UNCHANGED <<live, data_dir, replayFiles, store, parser, analyzer, visualizer, pc, loc, ret,
                   log, sumArg, sumRet, budget, firstBundle, prevOk, lastRun, lastRet, cli>>

CallArgs == {NoId, GivenId(<<"r1">>)}

Next ==
    \/ \E i \in Insts, path \in UserPaths, arg \in CallArgs : Call(i, path, arg)
    \/ \E i \in Insts : create_and_process_demo_replay(i)
    \/ \E i \in Insts : Begin(i)
    \/ \E i \in Insts : Parse(i)
    \/ \E i \in Insts : ExportJson(i)
    \/ \E i \in Insts : CsvPlayer(i)
    \/ \E i \in Insts : CsvBall(i)
    \/ \E i \in Insts : AnalyzeStage(i)
    \/ \E i \in Insts : WriteAnalysis(i)
    \/ \E i \in Insts : Visualize(i)
    \/ \E i \in Insts : Compile(i)
    \/ \E i \in Insts : Return(i)
    \/ \E i \in Insts, rid \in QueryIds : Summary(i, rid)
    \/ \E i \in Insts : SummaryReturn(i)
    \/ Tick

\* process_replay and create_and_process_demo_replay calls only
NextRuns ==
    \/ \E i \in Insts, path \in UserPaths, arg \in CallArgs : Call(i, path, arg)
    \/ \E i \in Insts : create_and_process_demo_replay(i)
    \/ \E i \in Insts : Begin(i)
    \/ \E i \in Insts : Parse(i)
    \/ \E i \in Insts : ExportJson(i)
    \/ \E i \in Insts : CsvPlayer(i)
    \/ \E i \in Insts : CsvBall(i)
    \/ \E i \in Insts : AnalyzeStage(i)
    \/ \E i \in Insts : WriteAnalysis(i)
    \/ \E i \in Insts : Visualize(i)
    \/ \E i \in Insts : Compile(i)
    \/ \E i \in Insts : Return(i)
    \/ Tick

\* One integrator, its calls one after the other
Spec == Init /\ [][Next]_vars
\* Two integrators running their calls concurrently
SpecConc == InitConc /\ [][NextRuns]_vars

\* ------------------------------------------------------------ command line
\* Option names without the leading '--', as characters, so that argparse's
\* prefix matching can be computed.
OptReplay == <<"r", "e", "p", "l", "a", "y">>
OptDemo == <<"d", "e", "m", "o">>
OptResultId == <<"r", "e", "s", "u", "l", "t", "-", "i", "d">>
OptDataDir == <<"d", "a", "t", "a", "-", "d", "i", "r">>
OptGame == <<"g", "a", "m", "e">>
OptOutput == <<"o", "u", "t", "p", "u", "t">>

OptTok(name) == [kind |-> "opt", s |-> name]
ValTok(value) == [kind |-> "val", s |-> value]

\* The options integrador.py's main declares: name, and whether it takes a value
MainOptions ==
    {[name |-> OptReplay, takes |-> TRUE], [name |-> OptDemo, takes |-> FALSE],
     [name |-> OptResultId, takes |-> TRUE], [name |-> OptDataDir, takes |-> TRUE]}

\* The command line the analisar_replay wrapper hands to integrador.py
WrapperArgv(arquivo, jogo, saida) ==
    <<OptTok(OptReplay), ValTok(arquivo), OptTok(OptGame), ValTok(jogo),
      OptTok(OptOutput), ValTok(saida)>>

IsPrefix(a, b) == Len(a) <= Len(b) /\ SubSeq(b, 1, Len(a)) = a

\* argparse's option lookup: an exact name, else a unique prefix of one
Resolve(name) ==
    LET exact == {o \in MainOptions : o.name = name}
        byPrefix == {o \in MainOptions : IsPrefix(name, o.name)}
    IN IF exact # {} THEN exact ELSE IF Cardinality(byPrefix) = 1 THEN byPrefix ELSE {}

NoArgs ==
    [ok |-> TRUE, replay |-> <<>>, demo |-> FALSE, result_id |-> NoId, data_dir |-> <<>>]

Store(args, name, value) ==
    CASE name = OptReplay -> [args EXCEPT !.replay = value]
      [] name = OptResultId -> [args EXCEPT !.result_id = GivenId(value)]
      [] name = OptDataDir -> [args EXCEPT !.data_dir = value]
      [] OTHER -> args

\* parser.parse_args(): an unknown or ambiguous option, an option without its
\* value, or a stray value ends the program with a usage error
RECURSIVE ParseArgs(_, _, _)
ParseArgs(argv, k, args) ==
    IF k > Len(argv) THEN args
    ELSE IF argv[k].kind # "opt" THEN [args EXCEPT !.ok = FALSE]
    ELSE LET found == Resolve(argv[k].s)
         IN IF found = {} THEN [args EXCEPT !.ok = FALSE]
            ELSE LET o == CHOOSE x \in found : TRUE
                 IN IF ~o.takes
                    THEN ParseArgs(argv, k + 1, [args EXCEPT !.demo = TRUE])
                    ELSE IF k + 1 > Len(argv) \/ argv[k + 1].kind # "val"
                    THEN [args EXCEPT !.ok = FALSE]
                    ELSE ParseArgs(argv, k + 2, Store(args, o.name, argv[k + 1].s))

\* main() of integrador.py: what it does with the parsed arguments
Dispatch(args) ==
    IF ~args.ok THEN [kind |-> "usage_error"]
    ELSE IF args.demo THEN [kind |-> "demo", data_dir |-> args.data_dir]
    ELSE IF args.replay # <<>>
    THEN [kind |-> "process_replay", path |-> args.replay, result_id |-> args.result_id,
          data_dir |-> args.data_dir]
    ELSE [kind |-> "help"]

Games == {<<"rocket_league">>, <<"rainbow_six">>}
OutputDirs == {<<"data", "/", "results">>, <<"out">>}

\* Command lines a user gives integrador.py directly
ReplaySpellings == {OptReplay, <<"r", "e", "p">>, <<"r", "e">>}
DirectArgvs ==
    {r \o d \o i \o dd :
        r \in {<<>>} \cup {<<OptTok(n), ValTok(f)>> : n \in ReplaySpellings, f \in UserPaths},
        d \in {<<>>, <<OptTok(OptDemo)>>},
        i \in {<<>>, <<OptTok(OptResultId), ValTok(<<"r1">>)>>},
        dd \in {<<>>, <<OptTok(OptDataDir), ValTok(CustomDataDir)>>}}

\* python analisar_replay.py --arquivo F [--jogo G] [--saida D]
WrapperMain(arquivo, jogo, saida) ==
    /\ cli.pc = "start"
    /\ cli' = [pc |-> "integrador", argv |-> WrapperArgv(arquivo, jogo, saida),
               outcome |-> [kind |-> "none"], via |-> "wrapper", arquivo |-> arquivo]
    /\ UNCHANGED ivars

\* python integrador.py ARGV
DirectMain(argv) ==
    /\ cli.pc = "start"
    /\ cli' = [pc |-> "integrador", argv |-> argv, outcome |-> [kind |-> "none"],
               via |-> "direct", arquivo |-> <<>>]
    /\ UNCHANGED ivars

\* integrador.py's main parses its command line and acts on it
IntegradorMain ==
    /\ cli.pc = "integrador"
    /\ cli' = [cli EXCEPT !.pc = "exit", !.outcome = Dispatch(ParseArgs(cli.argv, 1, NoArgs))]
    /\ UNCHANGED ivars

CliExit ==
    /\ cli.pc = "exit"
    /\ cli' = CliStart
    /\ UNCHANGED ivars

NextCli ==
    \/ \E f \in UserPaths, g \in Games, o \in OutputDirs : WrapperMain(f, g, o)
    \/ \E argv \in DirectArgvs : DirectMain(argv)
    \/ IntegradorMain
    \/ CliExit

\* The command line alone
SpecCli == Init /\ [][NextCli]_vars

\* ------------------------------------------------------------ properties
Contains(sq, x) == \E k \in DOMAIN sq : sq[k] = x
Before(sq, x, k) == \E j \in DOMAIN sq : j < k /\ sq[j] = x

AnalyzerCalls == {"load_data", "load_dataframes", "analyze"}
DecodedExports == {"export_json", "csv_player", "csv_ball"}
AnalysisExports == {"write_analysis"} \cup ChartSet

\* The call of integrator i has run parse() and parse() reported failure
DecodeFailed(i) == Contains(log[i], "parse") /\ ~parser[i][1].parsed

\* C1: when parse() reports failure, process_replay returns None and that call
\* has invoked no analyzer method, written no analysis_results.json and
\* generated no visualization.
C1_FailedDecodeStopsPipeline ==
    \A i \in Insts :
        DecodeFailed(i) =>
            /\ pc[i] = "returned"
            /\ ret[i] = PyNone
            /\ \A k \in DOMAIN log[i] : log[i][k] \notin AnalyzerCalls \cup AnalysisExports

C1_Witness ==
    \E i \in Insts :
        /\ pc[i] = "returned" /\ DecodeFailed(i)
        /\ replayFiles[loc[i].replay_path] = "corrupt"

\* C2: if the most recent process_replay call naming result id r failed, then
\* get_result_summary(r) returns None, also when an earlier call with the same
\* id had succeeded.
C2_FailedRunYieldsNoSummary ==
    \A i \in Insts :
        LET dir == ResultDir(data_dir[i], sumArg[i])
        IN (pc[i] = "summarized" /\ dir \in DOMAIN lastRun /\ lastRun[dir] = "failed")
              => sumRet[i] = PyNone

\* C3: no export step (replay_data.json, the two CSV files,
\* analysis_results.json, any visualization) happens before analyzer.analyze()
\* of that run has completed.
C3_NoExportBeforeAnalyze ==
    \A i \in Insts : \A k \in DOMAIN log[i] :
        log[i][k] \in DecodedExports \cup AnalysisExports => Before(log[i], "analyze", k)

\* C3, amended: the stages run in the order parse, export of the decoded data
\* (replay_data.json, player_positions.csv, ball_positions.csv), analyze,
\* export of the analysis (analysis_results.json, the visualizations): the
\* decoded data is written after parse() and before the analyzer is invoked,
\* analysis_results.json and every visualization after analyze().
C3_StagesInOrder ==
    \A i \in Insts : \A k \in DOMAIN log[i] :
        /\ log[i][k] \in DecodedExports =>
              Before(log[i], "parse", k) /\ ~Before(log[i], "load_data", k)
        /\ log[i][k] \in AnalyzerCalls =>
              \A e \in DecodedExports : Before(log[i], e, k)
        /\ log[i][k] \in AnalysisExports => Before(log[i], "analyze", k)

C3_Witness ==
    \E i \in Insts :
        /\ pc[i] = "returned" /\ ret[i] # PyNone
        /\ \A e \in DecodedExports \cup AnalyzerCalls \cup AnalysisExports : Contains(log[i], e)

\* What a run on a capture c leaves and returns when it executes alone
SoloParser(path, c) == [path |-> path, parsed |-> TRUE, data |-> DecodedReplay(c)]
SoloAnalyzer(path, c) ==
    LET p == SoloParser(path, c)
    IN analyze(load_dataframes(load_data(RocketLeagueAnalyzer, replay_data(p)),
                              get_player_positions_dataframe(p), get_ball_positions_dataframe(p)))
SoloFile(path, c, f) ==
    LET p == SoloParser(path, c)
        an == SoloAnalyzer(path, c)
    IN CASE f = ReplayDataJson -> export_to_json(p)
         [] f = PlayerCsv -> to_csv(get_player_positions_dataframe(p))
         [] f = BallCsv -> to_csv(get_ball_positions_dataframe(p))
         [] f = AnalysisJson ->
               JsonDump(PyDict([analysis |-> an.analysis_results,
                                overall_score |-> get_overall_score(an),
                                findings |-> get_key_findings(an),
                                recommendations |-> get_recommendations(an)]))
         [] OTHER ->
               LET chart == CHOOSE ch \in ChartSet : SaveAs(ch) = f
               IN Render(chart, ChartInputs(chart, p, get_player_positions_dataframe(p),
                                            get_ball_positions_dataframe(p), an.analysis_results))
SoloDir(path, c) == [f \in FileNames |-> <<SoloFile(path, c, f)>>]

\* C4: two integrators running concurrently do not interfere: when a run
\* returns its result, the files in its result directory and the result are
\* those the run would have produced alone, also on a shared data directory
\* with generated or fixed result ids.
C4_ConcurrentRunsDoNotInterfere ==
    [][\A i \in Insts :
          (pc[i] = "compile" /\ pc'[i] = "returned") =>
              LET path == loc[i].replay_path
                  c == replayFiles[path]
              IN /\ store'[loc[i].result_dir] = SoloDir(path, c)
                 /\ Bundle(ret'[i]) = [analysis |-> SoloAnalyzer(path, c).analysis_results,
                                       overall_score |-> get_overall_score(SoloAnalyzer(path, c)),
                                       findings |-> get_key_findings(SoloAnalyzer(path, c)),
                                       recommendations |->
                                           get_recommendations(SoloAnalyzer(path, c))]]_vars

\* C5: a successful process_replay result and the analysis_results.json it
\* writes both carry the diagnostics record of non-fatal anomalies.
C5_ResultCarriesDiagnostics ==
    \A i \in Insts :
        (pc[i] = "returned" /\ ret[i] # PyNone) =>
            /\ HasKey(ret[i], "diagnostics")
            /\ HasKey(JsonLoad(store[loc[i].result_dir][AnalysisJson][1]), "diagnostics")

SummaryFields ==
    {"id", "metadata", "players", "events", "overall_score", "findings",
     "recommendations", "visualizations"}

C8_MissingFileChangesNothing ==
    [][\A i \in Insts :
          (pc[i] = "call" /\ pc'[i] # "call" /\ replayFiles[loc[i].replay_path] = "none") =>
              /\ pc'[i] = "returned"
              /\ ret'[i] = PyNone
              /\ log'[i] = <<>>
              /\ UNCHANGED <<store, visualizer, parser, analyzer, replayFiles>>]_vars

C8_Witness ==
    \E i \in Insts :
        /\ pc[i] = "returned" /\ ret[i] = PyNone /\ log[i] = <<>>
        /\ replayFiles[loc[i].replay_path] = "none"
        /\ store # <<>>

\* C9: get_result_summary(r) returns None exactly when the result directory of
\* r, its analysis_results.json or its replay_data.json is missing, a summary
\* otherwise, and in every case writes nothing and changes no integrator state.
C9_SummaryNoneIffMissing ==
    [][\A i \in Insts :
          (pc[i] = "idle" /\ pc'[i] = "summarized") =>
              LET dir == ResultDir(data_dir[i], sumArg'[i])
                  missing == \/ dir \notin DOMAIN store
                             \/ store[dir][AnalysisJson] = <<>>
                             \/ store[dir][ReplayDataJson] = <<>>
              IN /\ (sumRet'[i] = PyNone) <=> missing
                 /\ ~missing => DOMAIN sumRet'[i].v = SummaryFields
                 /\ UNCHANGED <<store, replayFiles, parser, analyzer, visualizer, loc, ret, data_dir>>]_vars

C9_Witness ==
    \E i \in Insts :
        LET dir == ResultDir(data_dir[i], sumArg[i])
        IN /\ pc[i] = "summarized" /\ sumRet[i] = PyNone
           /\ dir \in DOMAIN store /\ store[dir][AnalysisJson] = <<>>

\* C10: every option the wrapper forwards is one integrador.py accepts, so a
\* wrapper invocation with --arquivo F ends in process_replay on F.
C10_WrapperReachesProcessReplay ==
    (cli.pc = "exit" /\ cli.via = "wrapper") =>
        /\ cli.outcome.kind = "process_replay"
        /\ cli.outcome.path = cli.arquivo

=============================================================================
